---- MODULE Spec2Model ----
(***************************************************************************)
(* Model of packages/arcgis-rest-feature-service/src/features.ts:          *)
(* getFeature, queryFeatures, addFeatures, updateFeatures, deleteFeatures  *)
(* and the promises they return, over a heap of JavaScript objects.        *)
(***************************************************************************)
EXTENDS Integers, Sequences, FiniteSets, TLC

VARIABLES heap, callerParams, calls, promises

vars == <<heap, callerParams, calls, promises>>

\* The number of calls the caller makes in one behaviour.
MaxCalls == 2

-----------------------------------------------------------------------------
(* JavaScript values: a tag and a content.  Objects that are mutated live   *)
(* on the heap and are denoted by a reference.                              *)

Undefined == [t |-> "undefined", v |-> 0]
Str(s) == [t |-> "string", v |-> s]
Num(n) == [t |-> "number", v |-> n]
Arr(a) == [t |-> "array", v |-> a]
Ref(r) == [t |-> "object", v |-> r]
Feat(name) == [t |-> "feature", v |-> name]
Payload(fields) == [t |-> "payload", v |-> fields]
Err(name) == [t |-> "error", v |-> name]

\* an object literal with no own property: {}
EmptyObject == [k \in {} |-> Undefined]

\* obj[k] of JavaScript: undefined when obj has no own property k
Get(obj, k) == IF k \in DOMAIN obj THEN obj[k] ELSE Undefined

\* obj[k] = v of JavaScript: adds the key or replaces its value
SetKey(obj, k, v) == [x \in DOMAIN obj \cup {k} |-> IF x = k THEN v ELSE obj[x]]

\* { ...a, ...b }: the own properties of a, then those of b, b winning
Spread(a, b) == [k \in DOMAIN a \cup DOMAIN b |-> IF k \in DOMAIN b THEN b[k] ELSE a[k]]

\* !v of JavaScript
Falsy(v) ==
    \/ v.t = "undefined"
    \/ v.t = "string" /\ v.v = ""
    \/ v.t = "number" /\ v.v = 0

\* `${v}` of JavaScript
ToStr(v) ==
    CASE v.t = "string" -> v.v
      [] v.t = "number" -> ToString(v.v)
      [] OTHER -> "undefined"

\* reading or writing a property of v throws a TypeError unless v is an object
IsObject(v) == v.t = "object"

TypeError == Err("TypeError")

-----------------------------------------------------------------------------
(* What the caller can pass.                                                *)

\* the one params object the caller owns and may pass to several calls
P == "p"

X == Arr(<<Feat("x")>>)
Y == Str("y")
A1 == Arr(<<Feat("f1")>>)
A2 == Arr(<<>>)
D1 == Arr(<<Num(1), Num(2), Num(3)>>)
D2 == Arr(<<>>)

\* what the caller's params object holds when the caller has built it
CallerParamsChoices ==
    { EmptyObject,
      [features |-> X, objectIds |-> Arr(<<Num(9)>>), other |-> Y,
       where |-> Str("x>1"), outFields |-> Arr(<<Str("a"), Str("b")>>)],
      [where |-> Str(""), outFields |-> Arr(<<>>)] }

\* the options objects the caller passes: with and without params (absent,
\* undefined, the caller's object), with and without a method hint
GetOptions ==
    { [url |-> Str("https://svc/layer"), id |-> Num(42)],
      [url |-> Str("U"), id |-> Num(7)],
      [url |-> Str("U"), id |-> Num(42), httpMethod |-> Str("POST")] }
QueryOptions ==
    { [url |-> Str("U")],
      [url |-> Str("https://svc/layer"), params |-> Ref(P)],
      [url |-> Str("U"), params |-> Undefined] }
AddOptions ==
    { [url |-> Str("U"), adds |-> A1],
      [url |-> Str("https://svc/layer"), adds |-> A2, params |-> Ref(P)],
      [url |-> Str("U"), adds |-> A1, params |-> Ref(P), httpMethod |-> Str("GET")] }
UpdateOptions ==
    { [url |-> Str("U"), updates |-> A1, params |-> Ref(P)],
      [url |-> Str("https://svc/layer"), updates |-> A2, httpMethod |-> Str("GET")] }
DeleteOptions ==
    { [url |-> Str("U"), deletes |-> D1],
      [url |-> Str("https://svc/layer"), deletes |-> D2, params |-> Ref(P)],
      [url |-> Str("U"), deletes |-> D1, params |-> Undefined] }

\* what the transport can resolve or reject with
Responses ==
    { Payload([feature |-> Feat("f1"), other |-> Y]),
      Payload([other |-> Y]) }
Errors == { Err("E1"), Err("E2") }

-----------------------------------------------------------------------------
(* The five functions.  Each takes the caller's options, the heap and the   *)
(* name of the object a literal {} of this call would allocate, and yields  *)
(* either a thrown value or the arguments of request() and the heap after.  *)

Thrown(e, h) == [threw |-> TRUE, error |-> e, heap |-> h]
Requested(url, options, h) ==
    [threw |-> FALSE, url |-> url, options |-> options, heap |-> h]

\* the heap once the literal {} of this call is in use
WithFresh(h, options, fresh) ==
    IF Get(options, "params") = Ref(fresh)
    THEN [r \in DOMAIN h \cup {fresh} |-> IF r = fresh THEN EmptyObject ELSE h[r]]
    ELSE h

getFeature(requestOptions, h, fresh) ==
    LET url == ToStr(Get(requestOptions, "url")) \o "/" \o ToStr(Get(requestOptions, "id"))
        options == Spread([httpMethod |-> Str("GET")], requestOptions)
    IN  Requested(url, options, h)

\* queryFeatures that defaults where only when it allocated params itself
queryFeatures_defaultsOwnParamsOnly(requestOptions, h, fresh) ==
    LET options == Spread([params |-> Ref(fresh), httpMethod |-> Str("GET")], requestOptions)
        params == Get(options, "params")
        h0 == WithFresh(h, options, fresh)
        h1 == IF params = Ref(fresh)
              THEN [h0 EXCEPT ![params.v] = SetKey(@, "where", Str("1=1"))]
              ELSE h0
        h2 == IF Falsy(Get(h1[params.v], "outFields"))
              THEN [h1 EXCEPT ![params.v] = SetKey(@, "outFields", Str("*"))]
              ELSE h1
    IN  IF ~IsObject(params)
        THEN Thrown(TypeError, h)
        ELSE Requested(ToStr(Get(requestOptions, "url")) \o "/query", options, h2)

queryFeatures(requestOptions, h, fresh) ==
    LET options == Spread([params |-> Ref(fresh), httpMethod |-> Str("GET")], requestOptions)
        params == Get(options, "params")
        h0 == WithFresh(h, options, fresh)
        h1 == IF Falsy(Get(h0[params.v], "where"))
              THEN [h0 EXCEPT ![params.v] = SetKey(@, "where", Str("1=1"))]
              ELSE h0
        h2 == IF Falsy(Get(h1[params.v], "outFields"))
              THEN [h1 EXCEPT ![params.v] = SetKey(@, "outFields", Str("*"))]
              ELSE h1
    IN  IF ~IsObject(params)
        THEN Thrown(TypeError, h)
        ELSE Requested(ToStr(Get(requestOptions, "url")) \o "/query", options, h2)

\* addFeatures that leaves a features key of the caller's params in place
addFeatures_keepsCallerKey(requestOptions, h, fresh) ==
    LET url == ToStr(Get(requestOptions, "url")) \o "/addFeatures"
        options == Spread([params |-> Ref(fresh)], requestOptions)
        params == Get(options, "params")
        h0 == WithFresh(h, options, fresh)
    IN  IF ~IsObject(params)
        THEN Thrown(TypeError, h)
        ELSE Requested(url, options,
                 IF "features" \in DOMAIN h0[params.v]
                 THEN h0
                 ELSE [h0 EXCEPT ![params.v] =
                          SetKey(@, "features", Get(requestOptions, "adds"))])

addFeatures(requestOptions, h, fresh) ==
    LET url == ToStr(Get(requestOptions, "url")) \o "/addFeatures"
        options == Spread([params |-> Ref(fresh)], requestOptions)
        params == Get(options, "params")
        h0 == WithFresh(h, options, fresh)
    IN  IF ~IsObject(params)
        THEN Thrown(TypeError, h)
        ELSE Requested(url, options,
                 [h0 EXCEPT ![params.v] = SetKey(@, "features", Get(requestOptions, "adds"))])

updateFeatures(requestOptions, h, fresh) ==
    LET url == ToStr(Get(requestOptions, "url")) \o "/updateFeatures"
        options == Spread([params |-> Ref(fresh)], requestOptions)
        params == Get(options, "params")
        h0 == WithFresh(h, options, fresh)
    IN  IF ~IsObject(params)
        THEN Thrown(TypeError, h)
        ELSE Requested(url, options,
                 [h0 EXCEPT ![params.v] = SetKey(@, "features", Get(requestOptions, "updates"))])

\* deleteFeatures with the URL suffix of the function it was copied from
deleteFeatures_copiedSuffix(requestOptions, h, fresh) ==
    LET url == ToStr(Get(requestOptions, "url")) \o "/updateFeatures"
        options == Spread([params |-> Ref(fresh)], requestOptions)
        params == Get(options, "params")
        h0 == WithFresh(h, options, fresh)
    IN  IF ~IsObject(params)
        THEN Thrown(TypeError, h)
        ELSE Requested(url, options,
                 [h0 EXCEPT ![params.v] = SetKey(@, "objectIds", Get(requestOptions, "deletes"))])

deleteFeatures(requestOptions, h, fresh) ==
    LET url == ToStr(Get(requestOptions, "url")) \o "/deleteFeatures"
        options == Spread([params |-> Ref(fresh)], requestOptions)
        params == Get(options, "params")
        h0 == WithFresh(h, options, fresh)
    IN  IF ~IsObject(params)
        THEN Thrown(TypeError, h)
        ELSE Requested(url, options,
                 [h0 EXCEPT ![params.v] = SetKey(@, "objectIds", Get(requestOptions, "deletes"))])

\* the function of a given name
Apply(fn, requestOptions, h, fresh) ==
    CASE fn = "getFeature" -> getFeature(requestOptions, h, fresh)
      [] fn = "queryFeatures" -> queryFeatures(requestOptions, h, fresh)
      [] fn = "addFeatures" -> addFeatures(requestOptions, h, fresh)
      [] fn = "updateFeatures" -> updateFeatures(requestOptions, h, fresh)
      [] fn = "deleteFeatures" -> deleteFeatures(requestOptions, h, fresh)

-----------------------------------------------------------------------------
(* Promises.                                                                *)

Pending == [state |-> "pending", value |-> Undefined]
Fulfilled(v) == [state |-> "fulfilled", value |-> v]
Rejected(e) == [state |-> "rejected", value |-> e]

\* (response) => response
unwrapFeature_whole(response) == response

\* (response) => response.feature
unwrapFeature(response) == Get(response.v, "feature")

\* a .then that also handles the rejection and resolves with undefined
thenUnwrap_swallows(settled) ==
    IF settled.state = "fulfilled"
    THEN Fulfilled(unwrapFeature(settled.value))
    ELSE Fulfilled(Undefined)

\* promise.then(onFulfilled) once the promise it derives from has settled
thenUnwrap(settled) ==
    IF settled.state = "fulfilled"
    THEN Fulfilled(unwrapFeature(settled.value))
    ELSE Rejected(settled.value)

-----------------------------------------------------------------------------
(* State machine.                                                           *)

\* the params object the options refer to, as the heap h holds it
ParamsOf(options, h) ==
    IF IsObject(Get(options, "params")) THEN h[Get(options, "params").v] ELSE EmptyObject

FreshRef(i) == "fresh" \o ToString(i)

Init ==
    /\ callerParams \in CallerParamsChoices
    /\ heap = [r \in {P} |-> callerParams]
    /\ calls = <<>>
    /\ promises = <<>>

\* One call of fn with requestOptions: the synchronous part of the function.
\* A call that throws returns no promise; a call that reaches request()
\* records what it handed over, the params object as it was at that moment.
\* `before` is the caller's params object as it was when the call began.
Call(fn, requestOptions) ==
    /\ Len(calls) < MaxCalls
    /\ LET i == Len(calls) + 1
           r == Apply(fn, requestOptions, heap, FreshRef(i))
           transport == Len(promises) + 1
           before == ParamsOf(requestOptions, heap)
       IN  /\ heap' = r.heap
           /\ IF r.threw
              THEN /\ calls' = Append(calls,
                         [fn |-> fn, requestOptions |-> requestOptions,
                          before |-> before, threw |-> TRUE,
                          error |-> r.error, url |-> "", options |-> EmptyObject,
                          params |-> EmptyObject, transport |-> 0, returned |-> 0])
                   /\ promises' = promises
              ELSE /\ calls' = Append(calls,
                         [fn |-> fn, requestOptions |-> requestOptions,
                          before |-> before, threw |-> FALSE,
                          error |-> Undefined, url |-> r.url, options |-> r.options,
                          params |-> ParamsOf(r.options, r.heap),
                          transport |-> transport,
                          returned |-> IF fn = "getFeature" THEN transport + 1 ELSE transport])
                   /\ promises' = IF fn = "getFeature"
                                  THEN promises \o <<Pending, Pending>>
                                  ELSE Append(promises, Pending)
    /\ UNCHANGED callerParams

GetFeature == \E o \in GetOptions : Call("getFeature", o)
QueryFeatures == \E o \in QueryOptions : Call("queryFeatures", o)
AddFeatures == \E o \in AddOptions : Call("addFeatures", o)
UpdateFeatures == \E o \in UpdateOptions : Call("updateFeatures", o)
DeleteFeatures == \E o \in DeleteOptions : Call("deleteFeatures", o)

\* the transport settles the promise request() returned
TransportResolve ==
    \E i \in DOMAIN calls, response \in Responses :
        /\ ~calls[i].threw
        /\ promises[calls[i].transport].state = "pending"
        /\ promises' = [promises EXCEPT ![calls[i].transport] = Fulfilled(response)]
        /\ UNCHANGED <<heap, callerParams, calls>>

TransportReject ==
    \E i \in DOMAIN calls, e \in Errors :
        /\ ~calls[i].threw
        /\ promises[calls[i].transport].state = "pending"
        /\ promises' = [promises EXCEPT ![calls[i].transport] = Rejected(e)]
        /\ UNCHANGED <<heap, callerParams, calls>>

\* the reaction getFeature registered with .then runs
ThenReaction ==
    \E i \in DOMAIN calls :
        /\ ~calls[i].threw
        /\ calls[i].returned # calls[i].transport
        /\ promises[calls[i].transport].state # "pending"
        /\ promises[calls[i].returned].state = "pending"
        /\ promises' = [promises EXCEPT ![calls[i].returned] =
                            thenUnwrap(promises[calls[i].transport])]
        /\ UNCHANGED <<heap, callerParams, calls>>

Next ==
    \/ GetFeature
    \/ QueryFeatures
    \/ AddFeatures
    \/ UpdateFeatures
    \/ DeleteFeatures
    \/ TransportResolve
    \/ TransportReject
    \/ ThenReaction

Spec == Init /\ [][Next]_vars

-----------------------------------------------------------------------------
(* Properties.                                                              *)

Edits == {"addFeatures", "updateFeatures", "deleteFeatures"}
ReservedKey(fn) == IF fn = "deleteFeatures" THEN "objectIds" ELSE "features"
PayloadKey(fn) ==
    CASE fn = "addFeatures" -> "adds"
      [] fn = "updateFeatures" -> "updates"
      [] fn = "deleteFeatures" -> "deletes"

\* C1: the params an edit function hands to the transport hold the call's
\* adds / updates / deletes under the reserved key, whatever the caller's
\* params held there, and every other key of the caller's params unchanged.
C1_ReservedKeyWins ==
    \A i \in DOMAIN calls :
        LET c == calls[i]
            reserved == ReservedKey(c.fn)
        IN  (c.fn \in Edits /\ ~c.threw) =>
                /\ reserved \in DOMAIN c.params
                /\ c.params[reserved] = c.requestOptions[PayloadKey(c.fn)]
                /\ \A k \in DOMAIN c.before \ {reserved} :
                       k \in DOMAIN c.params /\ c.params[k] = c.before[k]

\* an addFeatures whose caller had put another value under features, and
\* another key, in params
C1_Witness ==
    \E i \in DOMAIN calls :
        LET c == calls[i]
        IN  /\ c.fn = "addFeatures" /\ ~c.threw
            /\ "features" \in DOMAIN c.before
            /\ c.before["features"] # c.requestOptions["adds"]
            /\ "other" \in DOMAIN c.before
            /\ c.params["features"] = c.requestOptions["adds"]

\* C2: a queryFeatures whose params hold no where hands over where = "1=1";
\* one whose params hold no outFields hands over outFields = "*"; also when
\* the options hold no params.
C2_QueryDefaults ==
    \A i \in DOMAIN calls :
        LET c == calls[i]
        IN  (c.fn = "queryFeatures" /\ ~c.threw) =>
                /\ "where" \notin DOMAIN c.before => Get(c.params, "where") = Str("1=1")
                /\ "outFields" \notin DOMAIN c.before => Get(c.params, "outFields") = Str("*")

\* a queryFeatures called without params that reached the transport
C2_Witness ==
    \E i \in DOMAIN calls :
        LET c == calls[i]
        IN  /\ c.fn = "queryFeatures" /\ ~c.threw
            /\ "params" \notin DOMAIN c.requestOptions
            /\ c.params = [where |-> Str("1=1"), outFields |-> Str("*")]

\* C3: a where or outFields the caller supplied is handed over unchanged,
\* whatever its value.
C3_ExplicitPreserved ==
    \A i \in DOMAIN calls :
        LET c == calls[i]
        IN  (c.fn = "queryFeatures" /\ ~c.threw) =>
                /\ "where" \in DOMAIN c.before => Get(c.params, "where") = c.before["where"]
                /\ "outFields" \in DOMAIN c.before =>
                       Get(c.params, "outFields") = c.before["outFields"]

\* C4: the request of an edit function is never a GET, whatever the options.
C4_EditsNeverGet ==
    \A i \in DOMAIN calls :
        LET c == calls[i]
        IN  (c.fn \in Edits /\ ~c.threw) => Get(c.options, "httpMethod") # Str("GET")

\* C5: getFeature without a method hint requests url/id with the hint GET,
\* and resolves with the feature field of the payload and nothing else.
C5_GetFeature ==
    \A i \in DOMAIN calls :
        LET c == calls[i]
        IN  (c.fn = "getFeature" /\ "httpMethod" \notin DOMAIN c.requestOptions) =>
                /\ ~c.threw
                /\ c.url = c.requestOptions["url"].v \o "/"
                             \o ToString(c.requestOptions["id"].v)
                /\ c.requestOptions = [url |-> Str("https://svc/layer"), id |-> Num(42)]
                       => c.url = "https://svc/layer/42"
                /\ Get(c.options, "httpMethod") = Str("GET")
                /\ (/\ promises[c.transport].state = "fulfilled"
                    /\ promises[c.returned].state # "pending")
                       => LET payload == promises[c.transport].value.v
                          IN  promises[c.returned] =
                                  Fulfilled(IF "feature" \in DOMAIN payload
                                            THEN payload["feature"]
                                            ELSE Undefined)

\* a getFeature whose payload had a feature and a sibling has resolved
C5_Witness ==
    \E i \in DOMAIN calls :
        LET c == calls[i]
        IN  /\ c.fn = "getFeature" /\ "httpMethod" \notin DOMAIN c.requestOptions
            /\ promises[c.transport] =
                   Fulfilled(Payload([feature |-> Feat("f1"), other |-> Y]))
            /\ promises[c.returned] = Fulfilled(Feat("f1"))

\* C6: once the transport has rejected with E, the returned promise is
\* pending or rejected with E, never fulfilled; and it does not settle before
\* the transport has.
C6_RejectionPropagates ==
    \A i \in DOMAIN calls :
        LET c == calls[i]
        IN  ~c.threw =>
                /\ promises[c.transport].state = "rejected" =>
                       promises[c.returned] \in {Pending, promises[c.transport]}
                /\ promises[c.transport].state = "pending" =>
                       promises[c.returned] = Pending

\* getFeature's promise has rejected with the transport's error
C6_Witness ==
    \E i \in DOMAIN calls :
        LET c == calls[i]
        IN  /\ c.fn = "getFeature" /\ ~c.threw
            /\ promises[c.transport] = Rejected(Err("E1"))
            /\ promises[c.returned] = Rejected(Err("E1"))

\* C7: every call issues its request and returns a promise.
C7_EveryCallRequests ==
    \A i \in DOMAIN calls :
        /\ ~calls[i].threw
        /\ calls[i].transport \in DOMAIN promises
        /\ calls[i].returned \in DOMAIN promises

\* C8: an edit function leaves the caller's params object as it was.
C8_CallerParamsUnchanged ==
    \A i \in DOMAIN calls :
        LET c == calls[i]
        IN  (c.fn \in Edits /\ ~c.threw /\ IsObject(Get(c.requestOptions, "params"))) =>
                c.params = c.before

\* what the call would be had it been the caller's only call
Alone(i) ==
    Apply(calls[i].fn, calls[i].requestOptions, [r \in {P} |-> callerParams], FreshRef(i))

\* C9: each call hands the transport the URL, method hint and params it
\* would hand over had it been made alone.
C9_CallsIndependent ==
    \A i \in DOMAIN calls :
        LET c == calls[i]
            alone == Alone(i)
        IN  /\ c.threw = alone.threw
            /\ ~c.threw =>
                   /\ c.url = alone.url
                   /\ Get(c.options, "httpMethod") = Get(alone.options, "httpMethod")
                   /\ c.params = ParamsOf(alone.options, alone.heap)

Suffix(c) ==
    CASE c.fn = "getFeature" -> "/" \o ToString(c.requestOptions["id"].v)
      [] c.fn = "queryFeatures" -> "/query"
      [] c.fn = "addFeatures" -> "/addFeatures"
      [] c.fn = "updateFeatures" -> "/updateFeatures"
      [] c.fn = "deleteFeatures" -> "/deleteFeatures"

\* C10: the URL handed to the transport is the caller's url followed by the
\* function's suffix; deleteFeatures hands over objectIds = deletes.
C10_UrlSuffix ==
    \A i \in DOMAIN calls :
        LET c == calls[i]
        IN  ~c.threw =>
                /\ c.url = c.requestOptions["url"].v \o Suffix(c)
                /\ c.fn = "deleteFeatures" =>
                       Get(c.params, "objectIds") = c.requestOptions["deletes"]

\* deleteFeatures({url: U, deletes: [1,2,3]}) has reached the transport
C10_Witness ==
    \E i \in DOMAIN calls :
        LET c == calls[i]
        IN  /\ c.requestOptions = [url |-> Str("U"), deletes |-> D1]
            /\ c.fn = "deleteFeatures" /\ ~c.threw
            /\ c.url = "U/deleteFeatures"
            /\ c.params = [objectIds |-> D1]

====
